---- MODULE Spec2Model ----
(***************************************************************************)
(* Legion Link: multi-device synchronized capture.                         *)
(*                                                                         *)
(* Seven state machines share this module.                                 *)
(*   Spec        one node: the LegionService singleton (services/          *)
(*               legionService.ts) together with the part of               *)
(*               CameraInterface.tsx that listens to it and starts and     *)
(*               stops the local recording.  The network and the user are  *)
(*               the environment.                                          *)
(*   CameraSpec  the same node seen from the camera: the user, the         *)
(*               Commander's commands, the start timers.                   *)
(*   ListenerSpec  the service with its two listeners, the camera and the  *)
(*               Dashboard, subscribing and unsubscribing.                 *)
(*   FrameSpec   CameraSpec on a connection that also delivers frames that *)
(*               are not a LegionMessage.                                  *)
(*   PluginSpec  the Commander transport, LegionLinkPlugin (Kotlin): the   *)
(*               connection list and the threads of one broadcast.         *)
(*   ServerSpec  the same plugin from initializeServer to stopServer: the  *)
(*               server thread, the heartbeat timer task and the handler   *)
(*               thread of each connection.                                *)
(*   LinkSpec    a Commander end to end: the service of the Commander's    *)
(*               node above the plugin's server, with one FieldNode        *)
(*               connected; every thread and timer keeps running.          *)
(* Times are milliseconds.  A timer fires exactly when it is due: the      *)
(* clock cannot pass a due timer.                                          *)
(***************************************************************************)
EXTENDS Integers, Sequences, FiniteSets, TLC

VARIABLES
    clock,              \* Date.now() of the node
    ticks,              \* number of clock advances so far
    role,               \* LegionService.role
    sockets,            \* readyState of every WebSocket constructed so far;
                        \* this.socket is the last one
    syncOffset,         \* LegionService.syncOffset
    heartbeatInterval,  \* LegionService.heartbeatInterval: 0 (null), or the
                        \* timer it refers to, named by its next firing
    intervals,          \* the live setInterval timers: the next firing of each
    devices,            \* LegionService.devices: senderId -> lastPing
    onMessageCallback,  \* LegionService.onMessageCallback
    telemetry,          \* LegionService.onTelemetryCallback, and history: the
                        \* listeners registered and not yet unsubscribed
    loopback,           \* setTimeout(.., 0) tasks queued by sendCommand
    inits,              \* number of initialize calls so far
    legionRole,         \* App state legionRole (prop of CameraInterface)
    isLegionMode,       \* mode === CameraMode.LEGION_LINK
    cam,                \* CameraInterface state, refs and pending timers
    received,           \* number of records delivered so far
    seen,               \* history: senderId -> last receipt of a liveness message
    ev,                 \* history: what the last step was given and what it did
    clients,            \* LegionLinkPlugin.clients
    conn,               \* plugin: what each connection has been sent, and whether it is broken
    bc,                 \* plugin: the broadcast in progress
    srv                 \* plugin: isLegatus, serverSocket, heartbeatTimer and
                        \* the position of the server thread and timer task

timerVars == <<heartbeatInterval, intervals>>
observerVars == <<onMessageCallback, telemetry>>
nodeVars == <<clock, ticks, role, sockets, syncOffset, timerVars,
              devices, observerVars, loopback, inits, legionRole,
              isLegionMode, cam, received, seen, ev>>
pluginVars == <<clients, conn, bc, srv>>
vars == <<nodeVars, pluginVars>>

----------------------------------------------------------------------------
(* Bounds of the model *)

MaxTicks == 4
MaxMsgs == 2
MaxInits == 2
StartTime == 1000
MaxPending == 1
MaxCameraTicks == 2
Skew == 250

(* Program constants *)

HeartbeatPeriod == 5000
LivenessTimeout == 15000
ShutterLead == 500
DashboardLead == 1000

TickSteps == {HeartbeatPeriod}
Latencies == {0, 250}
Delays == {0, ShutterLead, DashboardLead}

MaxBroadcasts == 1
MaxStarts == 2
Sockets == {"s1", "s2", "s3"}

DeviceId == "self"
Senders == {"self", "n1"}
MsgTypes == {"HANDSHAKE", "SYNC", "START_REC", "STOP_REC", "HEARTBEAT",
             "TELEMETRY", "PREVIEW_FRAME", "COMMAND"}

Max(a, b) == IF a >= b THEN a ELSE b

RemoveAt(q, k) == [j \in 1..(Len(q) - 1) |-> IF j < k THEN q[j] ELSE q[j + 1]]

NoMsg == [type |-> "NONE", timestamp |-> 0, senderId |-> "none", delay |-> 0]

----------------------------------------------------------------------------
(* LegionService *)

\* this.socket && this.socket.readyState === WebSocket.OPEN
SocketIsOpen(socks) == Len(socks) > 0 /\ socks[Len(socks)] = "OPEN"

\* getSynchronizedTime() with the offset `off`
getSynchronizedTime(off) == clock - off

\* getConnectedDevices(): the ids of the records of the snapshot
getConnectedDevices == DOMAIN devices

\* the branches of sendCommand with the role test left out
RouteAnyRole(socks, r) ==
    IF SocketIsOpen(socks) THEN "socket" ELSE "broadcast"

\* the branch sendCommand takes: the socket if it is open, else the
\* broadcast of a LEGATUS, else nothing
Route(socks, r) ==
    IF SocketIsOpen(socks) THEN "socket"
    ELSE IF r = "LEGATUS" THEN "broadcast"
    ELSE "none"

\* the record the destination is given.  socket.send carries the whole
\* message; LegionLink.broadcastCommand is passed type and payload only, and
\* broadcastSyncMessage stamps the record itself and writes no senderId
Wire(via, msg) ==
    IF via = "socket" THEN msg
    ELSE IF via = "broadcast"
    THEN [type |-> msg.type, timestamp |-> clock, senderId |-> "undefined",
          delay |-> msg.delay]
    ELSE NoMsg

\* sendCommand with the loopback made before it returns
SyncLoopbackSendCommand(socks, type, delay) ==
    LET msg == [type |-> type, timestamp |-> clock,
                senderId |-> DeviceId, delay |-> delay]
        via == Route(socks, role)
    IN  [via |-> via, msg |-> msg, wire |-> Wire(via, msg),
         deferred |-> <<>>,
         inline |-> IF via = "broadcast" THEN <<msg>> ELSE <<>>]

\* sendCommand: the message it builds and where it goes.  `deferred` are the
\* observer calls left to a later scheduling turn, `inline` those made
\* before sendCommand returns.
sendCommand(socks, type, delay) ==
    LET msg == [type |-> type, timestamp |-> clock,
                senderId |-> DeviceId, delay |-> delay]
        via == Route(socks, role)
    IN  [via |-> via, msg |-> msg, wire |-> Wire(via, msg),
         deferred |-> IF via = "broadcast" THEN <<msg>> ELSE <<>>,
         inline |-> <<>>]

\* handleMessage with a smoothed offset
AveragedNextOffset(m, off) ==
    IF m.senderId = DeviceId THEN off
    ELSE IF m.type \in {"SYNC", "HEARTBEAT"}
    THEN (off + (clock - m.timestamp)) \div 2
    ELSE off

\* handleMessage, the clock part
NextOffset(m, off) ==
    IF m.senderId = DeviceId THEN off
    ELSE IF m.type \in {"SYNC", "HEARTBEAT"} THEN clock - m.timestamp
    ELSE off

\* handleMessage with the observer called first, before the updates
OffsetBeforeUpdate(m, off) == off

\* the offset in force when handleMessage reaches the observer call, which
\* is its last statement
OffsetAtCallback(m, off) == NextOffset(m, off)

\* handleMessage, the membership part
Upsert(m, devs) ==
    IF m.senderId = DeviceId THEN devs
    ELSE IF m.type \in {"TELEMETRY", "HANDSHAKE"}
    THEN [id \in (DOMAIN devs) \cup {m.senderId} |->
             IF id = m.senderId THEN clock ELSE devs[id]]
    ELSE devs

\* handleMessage calls notifyTelemetry()
Notifies(m) ==
    m.senderId # DeviceId /\ m.type \in {"TELEMETRY", "HANDSHAKE"}

\* the sweep with the threshold included
ExpiredAtThreshold(devs, id) == clock - devs[id] >= LivenessTimeout

\* the sweep of the heartbeat interval callback
Expired(devs, id) == clock - devs[id] > LivenessTimeout

Sweep(devs) ==
    [id \in {d \in DOMAIN devs : ~Expired(devs, d)} |-> devs[id]]

\* the sweep with notifyTelemetry() called on every tick
SweepAlwaysNotifies(devs) == TRUE

\* the flag `changed` of the sweep: set when a record is deleted
SweepChanged(devs) == \E id \in DOMAIN devs : Expired(devs, id)

\* clearInterval(h): the timer h refers to is no longer live
Cleared(live, h) ==
    IF \E k \in DOMAIN live : live[k] = h
    THEN RemoveAt(live, CHOOSE k \in DOMAIN live :
                          /\ live[k] = h
                          /\ \A j \in DOMAIN live : live[j] = h => k <= j)
    ELSE live

\* startHeartbeat without its first line
startHeartbeatNoGuard(t) ==
    [handle |-> clock + HeartbeatPeriod,
     live |-> Append(t.live, clock + HeartbeatPeriod)]

\* startHeartbeat: nothing if the field holds a timer, else a new interval
\* that fires first one period from now
startHeartbeat(t) ==
    IF t.handle # 0 THEN t
    ELSE [handle |-> clock + HeartbeatPeriod,
          live |-> Append(t.live, clock + HeartbeatPeriod)]

\* stopHeartbeat: clearInterval and null, if the field holds a timer
stopHeartbeat(t) ==
    IF t.handle # 0
    THEN [handle |-> 0, live |-> Cleared(t.live, t.handle)]
    ELSE t

\* onTelemetryUpdate(callback) called by the listener l
onTelemetryUpdate(t, l) ==
    [callback |-> l, subscribed |-> t.subscribed \cup {l}]

\* the function onTelemetryUpdate returned to l, called by l:
\* () => { this.onTelemetryCallback = null; }
unsubTelemetry(t, l) ==
    [callback |-> "null", subscribed |-> t.subscribed \ {l}]

\* notifyTelemetry() calls the listener l
Delivers(t, l) == t.callback = l

----------------------------------------------------------------------------
(* CameraInterface *)

\* startRecording(false) as the listener's closure sees it
startRecording(c, hasStream) ==
    IF ~hasStream THEN c
    ELSE [c EXCEPT !.mediaRecorder = "recording", !.isRecording = TRUE]

\* stopRecording, without its broadcast
stopRecording(c) ==
    IF c.mediaRecorder # "null" /\ c.isRecordingRef
    THEN [c EXCEPT !.mediaRecorder = "inactive", !.isRecording = FALSE]
    ELSE c

\* the wait with the lead left out
WaitWithoutLead(origin, lead, syncNow) == Max(0, origin - syncNow)

\* Math.max(0, (timestamp + delay) - getSynchronizedTime()) on its three
\* numbers
WaitFor(origin, lead, syncNow) == Max(0, (origin + lead) - syncNow)

\* the wait counted from receipt instead of from the origin
DelayFromReceipt(m, off) == m.delay

\* the wait the listener computes for a START_REC
StartDelay(m, off) ==
    WaitFor(m.timestamp, m.delay, getSynchronizedTime(off))

\* history kept with a pending start: the command it came from, the latency
\* of its delivery, the error of the offset when the wait was computed, the
\* wait, and whether a STOP_REC has been received since
NewTimer(m, off) ==
    [due |-> clock + StartDelay(m, off), origin |-> m.timestamp,
     lead |-> m.delay, sender |-> m.senderId,
     latency |-> (clock - Skew) - m.timestamp,
     exact |-> (off = Skew), err |-> off - Skew,
     wait |-> StartDelay(m, off),
     stopped |-> FALSE]

MarkStopped(timers) ==
    [k \in DOMAIN timers |-> [timers[k] EXCEPT !.stopped = TRUE]]

\* the listener without its first line
CamListenerNoSelfTest(c, m, off) ==
    IF m.type = "START_REC"
    THEN [c EXCEPT !.timers = Append(@, NewTimer(m, off))]
    ELSE IF m.type = "STOP_REC"
    THEN LET d == IF c.isRecordingRef THEN stopRecording(c) ELSE c
         IN  [d EXCEPT !.timers = MarkStopped(@)]
    ELSE c

\* the listener CameraInterface registers with onMessage
CamListener(c, m, off) ==
    IF m.senderId = DeviceId THEN c
    ELSE IF m.type = "START_REC"
    THEN [c EXCEPT !.timers = Append(@, NewTimer(m, off))]
    ELSE IF m.type = "STOP_REC"
    THEN LET d == IF c.isRecordingRef THEN stopRecording(c) ELSE c
         IN  [d EXCEPT !.timers = MarkStopped(@)]
    ELSE c

\* the observer, if one is registered, is called with m
Observe(c, m, off) ==
    IF onMessageCallback = "camera" THEN CamListener(c, m, off) ELSE c

\* the observer calls a sendCommand result makes before it returns
ObserveInline(c, r) ==
    IF r.inline # <<>> THEN Observe(c, r.inline[1], syncOffset) ELSE c

----------------------------------------------------------------------------
(* History of the last step: the record it was given (msg), the observer
   calls it made (obs), the sendCommand it made (sent), the recording it
   started (started), whether it called notifyTelemetry (notify), and what
   it found (pre): for a receipt the offset, for a sweep the device map, for
   a start timer the recording flag. *)

NoPre == [offset |-> 0, devices |-> <<>>, recording |-> FALSE]

Ev(op, msg, obs, sent, started) ==
    [op |-> op, msg |-> msg, obs |-> obs, sent |-> sent, started |-> started,
     notify |-> FALSE, pre |-> NoPre]

\* an observer call: the record handed over, and the offset and the device
\* ids the service holds while the observer runs
ObsAt(m, off, known) ==
    IF onMessageCallback = "camera"
    THEN <<[msg |-> m, inDispatch |-> FALSE, offset |-> off,
            known |-> known]>>
    ELSE <<>>

Obs(m) == ObsAt(m, syncOffset, DOMAIN devices)

InlineObs(r) ==
    IF r.inline # <<>> /\ onMessageCallback = "camera"
    THEN <<[msg |-> r.inline[1], inDispatch |-> TRUE, offset |-> syncOffset,
            known |-> DOMAIN devices]>>
    ELSE <<>>

Sent(r) == <<[via |-> r.via, msg |-> r.msg, wire |-> r.wire]>>

Started(via, t) ==
    <<[via |-> via, origin |-> t.origin, lead |-> t.lead, sender |-> t.sender,
       latency |-> t.latency, exact |-> t.exact, err |-> t.err,
       wait |-> t.wait, stopped |-> t.stopped]>>

\* no broadcastSyncMessage has been called yet
NoBroadcast ==
    [phase |-> "idle", n |-> 0, type |-> "NONE", targets |-> {},
     threads |-> <<>>, disconnected |-> {}]

----------------------------------------------------------------------------
(* Initial state: a freshly constructed LegionService, CameraInterface
   mounted in a video mode, camera not yet started; an idle plugin. *)

NodeInit ==
    /\ clock = StartTime
    /\ ticks = 0
    /\ role = "null"
    /\ sockets = <<>>
    /\ syncOffset = 0
    /\ heartbeatInterval = 0
    /\ intervals = <<>>
    /\ devices = <<>>
    /\ onMessageCallback = "null"
    /\ telemetry = [callback |-> "null", subscribed |-> {}]
    /\ loopback = <<>>
    /\ inits = 0
    /\ legionRole = "null"
    /\ isLegionMode = FALSE
    /\ cam = [stream |-> FALSE, capStream |-> FALSE, isRecording |-> FALSE,
              isRecordingRef |-> FALSE, mediaRecorder |-> "null",
              timers |-> <<>>]
    /\ received = 0
    /\ seen = <<>>
    /\ ev = Ev("new", NoMsg, <<>>, <<>>, <<>>)

\* a LegionLinkPlugin on which no method has been called
NoServer ==
    [isLegatus |-> FALSE, serverSocket |-> "null", heartbeatTimer |-> "null",
     thread |-> "none", old |-> "none", has |-> "none", task |-> "idle",
     status |-> "none", starts |-> 0, stopped |-> FALSE, late |-> {}]

PluginIdle ==
    /\ clients = {}
    /\ conn = [s \in Sockets |-> [state |-> "none", handler |-> "none",
                                  got |-> <<>>, line |-> "none"]]
    /\ bc = NoBroadcast
    /\ srv = NoServer

----------------------------------------------------------------------------
(* Actions of the node *)

\* what the caller of initialize is told: the async function has no throw
\* and awaits nothing, so its promise is fulfilled whatever the arguments
InitializeResult(r, hasTarget) == "fulfilled"

\* the heartbeat field and the live timers
Timers == [handle |-> heartbeatInterval, live |-> intervals]

\* initialize(role, protocol, targetIp)
initialize(r, hasTarget) ==
    /\ inits < MaxInits
    /\ inits' = inits + 1
    /\ role' = r
    /\ LET off == stopHeartbeat(Timers)
           t == IF r = "CENTURION" /\ hasTarget THEN off
                ELSE startHeartbeat(off)
       IN  /\ heartbeatInterval' = t.handle
           /\ intervals' = t.live
    /\ sockets' = IF r = "CENTURION" /\ hasTarget
                  THEN Append(sockets, "CONNECTING") ELSE sockets
    /\ ev' = Ev(IF r = "CENTURION" /\ ~hasTarget THEN "InitializeNoTarget"
                ELSE "initialize", NoMsg, <<>>, <<>>, <<>>)
    /\ UNCHANGED <<clock, ticks, syncOffset, devices, loopback, received,
                   seen>>

\* onLegionConnected, and the effect of CameraInterface that subscribes when
\* the mode becomes LEGION_LINK
onLegionConnected(r) ==
    /\ legionRole' = r
    /\ isLegionMode' = TRUE
    /\ IF isLegionMode
       THEN UNCHANGED <<observerVars, cam>>
       ELSE /\ onMessageCallback' = "camera"
            /\ telemetry' = onTelemetryUpdate(telemetry, "camera")
            /\ cam' = [cam EXCEPT !.capStream = cam.stream]

\* LegionHUD.startAsLegatus
StartAsLegatus ==
    /\ initialize("LEGATUS", FALSE)
    /\ onLegionConnected("LEGATUS")

\* LegionHUD.startAsCenturion
StartAsCenturion ==
    /\ initialize("CENTURION", TRUE)
    /\ onLegionConnected("CENTURION")

\* initialize('CENTURION') called without a target address
InitializeNoTarget ==
    /\ initialize("CENTURION", FALSE)
    /\ UNCHANGED <<legionRole, isLegionMode, observerVars, cam>>

\* the user leaves LEGION_LINK for another video mode: the effect's cleanup
LeaveLegionMode ==
    /\ isLegionMode
    /\ isLegionMode' = FALSE
    /\ onMessageCallback' = "null"
    /\ telemetry' = unsubTelemetry(telemetry, "camera")
    /\ ev' = Ev("LeaveLegionMode", NoMsg, <<>>, <<>>, <<>>)
    /\ UNCHANGED <<clock, ticks, role, sockets, syncOffset, timerVars,
                   devices, loopback, inits, legionRole, cam, received, seen>>

\* the user comes back to LEGION_LINK (App.handleModeChange with a role set)
EnterLegionMode ==
    /\ ~isLegionMode
    /\ legionRole # "null"
    /\ isLegionMode' = TRUE
    /\ onMessageCallback' = "camera"
    /\ telemetry' = onTelemetryUpdate(telemetry, "camera")
    /\ cam' = [cam EXCEPT !.capStream = cam.stream]
    /\ ev' = Ev("EnterLegionMode", NoMsg, <<>>, <<>>, <<>>)
    /\ UNCHANGED <<clock, ticks, role, sockets, syncOffset, timerVars,
                   devices, loopback, inits, legionRole, received, seen>>

\* the Dashboard is mounted, which App does only for a LEGATUS: its effect
\* calls onTelemetryUpdate(setDevices) and drops the function returned
DashboardMount ==
    /\ legionRole = "LEGATUS"
    /\ "dashboard" \notin telemetry.subscribed
    /\ telemetry' = onTelemetryUpdate(telemetry, "dashboard")
    /\ ev' = Ev("DashboardMount", NoMsg, <<>>, <<>>, <<>>)
    /\ UNCHANGED <<clock, ticks, role, sockets, syncOffset, timerVars,
                   devices, onMessageCallback, loopback, inits, legionRole,
                   isLegionMode, cam, received, seen>>

\* socket.onopen of the i-th WebSocket
SocketOpen(i) ==
    /\ sockets[i] = "CONNECTING"
    /\ sockets' = [sockets EXCEPT ![i] = "OPEN"]
    /\ LET r == sendCommand(sockets', "HANDSHAKE", 0)
       IN  /\ loopback' = loopback \o r.deferred
           /\ cam' = ObserveInline(cam, r)
           /\ ev' = Ev("SocketOpen", NoMsg, InlineObs(r), Sent(r), <<>>)
    /\ heartbeatInterval' = startHeartbeat(Timers).handle
    /\ intervals' = startHeartbeat(Timers).live
    /\ UNCHANGED <<clock, ticks, role, syncOffset, devices, observerVars,
                   inits, legionRole, isLegionMode, received, seen>>

\* the i-th WebSocket fails to connect or is closed; the step is recorded
\* as ConnectFailed when it is the attempt of the latest initialize
SocketClose(i) ==
    /\ sockets[i] \in {"CONNECTING", "OPEN"}
    /\ sockets' = [sockets EXCEPT ![i] = "CLOSED"]
    /\ ev' = Ev(IF sockets[i] = "CONNECTING" /\ i = Len(sockets)
                THEN "ConnectFailed" ELSE "SocketClose",
                NoMsg, <<>>, <<>>, <<>>)
    /\ UNCHANGED <<clock, ticks, role, syncOffset, timerVars, devices,
                   observerVars, loopback, inits, legionRole,
                   isLegionMode, cam, received, seen>>

\* a message of the Commander's clock, `lat` ms old on arrival
InMsg(type, sender, lat, delay) ==
    [type |-> type, timestamp |-> (clock - Skew) - lat, senderId |-> sender,
     delay |-> delay]

IsLiveness(m) == m.type \in {"HEARTBEAT", "TELEMETRY", "HANDSHAKE"}

\* socket.onmessage of the i-th WebSocket with a well-formed record:
\* handleMessage(m)
Receive(i, m) ==
    /\ received < MaxMsgs
    /\ sockets[i] = "OPEN"
    /\ received' = received + 1
    /\ seen' = IF IsLiveness(m) /\ m.senderId # DeviceId
               THEN [id \in (DOMAIN seen) \cup {m.senderId} |->
                        IF id = m.senderId THEN clock ELSE seen[id]]
               ELSE seen
    /\ syncOffset' = NextOffset(m, syncOffset)
    /\ devices' = Upsert(m, devices)
    /\ IF m.senderId = DeviceId
       THEN /\ cam' = cam
            /\ ev' = [Ev("Receive", m, <<>>, <<>>, <<>>)
                        EXCEPT !.pre.offset = syncOffset,
                               !.notify = Notifies(m)]
       ELSE /\ cam' = Observe(cam, m, OffsetAtCallback(m, syncOffset))
            /\ ev' = [Ev("Receive", m,
                         ObsAt(m, OffsetAtCallback(m, syncOffset),
                               DOMAIN Upsert(m, devices)),
                         <<>>, <<>>)
                        EXCEPT !.pre.offset = syncOffset,
                               !.notify = Notifies(m)]
    /\ UNCHANGED <<clock, ticks, role, sockets, timerVars,
                   observerVars, loopback, inits, legionRole,
                   isLegionMode>>

\* frames that are not a LegionMessage: text that is not JSON, the JSON
\* value null, an object without fields, objects with a type only
Frames == {"notJson", "null", "{}", "{type:HANDSHAKE}", "{type:STOP_REC}"}

\* try { JSON.parse(event.data); handleMessage(msg) } catch: JSON.parse
\* throws on text that is not JSON, and handleMessage throws on null at its
\* first line, msg.senderId
Throws(f) == f \in {"notJson", "null"}

\* what JSON.parse returns for an object: a field that is missing reads as
\* undefined.  The timestamp is read for no type these frames carry.
Parse(f) ==
    [type |-> IF f = "{type:HANDSHAKE}" THEN "HANDSHAKE"
              ELSE IF f = "{type:STOP_REC}" THEN "STOP_REC"
              ELSE "undefined",
     timestamp |-> 0, senderId |-> "undefined", delay |-> 0]

\* socket.onmessage of the i-th WebSocket with a frame that is not a
\* LegionMessage
ReceiveMalformed(i, f) ==
    /\ received < MaxMsgs
    /\ sockets[i] = "OPEN"
    /\ received' = received + 1
    /\ IF Throws(f)
       THEN /\ UNCHANGED <<syncOffset, devices, cam>>
            /\ ev' = [Ev("ReceiveMalformed", NoMsg, <<>>, <<>>, <<>>)
                        EXCEPT !.pre.offset = syncOffset]
       ELSE LET m == Parse(f)
            IN  /\ syncOffset' = NextOffset(m, syncOffset)
                /\ devices' = Upsert(m, devices)
                /\ cam' = Observe(cam, m, OffsetAtCallback(m, syncOffset))
                /\ ev' = [Ev("ReceiveMalformed", m,
                             ObsAt(m, OffsetAtCallback(m, syncOffset),
                                   DOMAIN Upsert(m, devices)),
                             <<>>, <<>>)
                            EXCEPT !.pre.offset = syncOffset,
                                   !.notify = Notifies(m)]
    /\ UNCHANGED <<clock, ticks, role, sockets, timerVars,
                   observerVars, loopback, inits, legionRole,
                   isLegionMode, seen>>

\* the live interval timers whose time has come
DueIntervals == {k \in DOMAIN intervals : intervals[k] <= clock}

\* the callback of the heartbeat interval: HEARTBEAT, then the sweep
HeartbeatTick ==
    /\ DueIntervals # {}
    /\ LET r == sendCommand(sockets, "HEARTBEAT", 0)
       IN  /\ loopback' = loopback \o r.deferred
           /\ cam' = ObserveInline(cam, r)
           /\ ev' = [Ev("HeartbeatTick", NoMsg, InlineObs(r), Sent(r), <<>>)
                       EXCEPT !.pre.devices = devices,
                              !.notify = SweepChanged(devices)]
    /\ devices' = Sweep(devices)
    /\ LET k == CHOOSE j \in DueIntervals : \A i \in DueIntervals : j <= i
       IN  /\ intervals' = [intervals EXCEPT ![k] = @ + HeartbeatPeriod]
           /\ heartbeatInterval' =
                  IF heartbeatInterval = intervals[k]
                  THEN heartbeatInterval + HeartbeatPeriod
                  ELSE heartbeatInterval
    /\ UNCHANGED <<clock, ticks, role, sockets, syncOffset, observerVars,
                   inits, legionRole, isLegionMode, received, seen>>

\* a setTimeout(.., 0) task of sendCommand runs
LoopbackRun ==
    /\ loopback # <<>>
    /\ loopback' = Tail(loopback)
    /\ cam' = Observe(cam, Head(loopback), syncOffset)
    /\ ev' = Ev("LoopbackRun", NoMsg, Obs(Head(loopback)), <<>>, <<>>)
    /\ UNCHANGED <<clock, ticks, role, sockets, syncOffset, timerVars,
                   devices, observerVars, inits, legionRole,
                   isLegionMode, received, seen>>

\* getUserMedia resolves: setStream(s)
StartCamera ==
    /\ ~cam.stream
    /\ cam' = [cam EXCEPT !.stream = TRUE]
    /\ ev' = Ev("StartCamera", NoMsg, <<>>, <<>>, <<>>)
    /\ UNCHANGED <<clock, ticks, role, sockets, syncOffset, timerVars,
                   devices, observerVars, loopback, inits, legionRole,
                   isLegionMode, received, seen>>

\* the effect that copies isRecording into isRecordingRef after a render
RefEffect ==
    /\ cam.isRecordingRef # cam.isRecording
    /\ cam' = [cam EXCEPT !.isRecordingRef = cam.isRecording]
    /\ ev' = Ev("RefEffect", NoMsg, <<>>, <<>>, <<>>)
    /\ UNCHANGED <<clock, ticks, role, sockets, syncOffset, timerVars,
                   devices, observerVars, loopback, inits, legionRole,
                   isLegionMode, received, seen>>

\* broadcast && isLegionMode && legionRole === 'LEGATUS'
Broadcasts == isLegionMode /\ legionRole = "LEGATUS"

\* the command a shutter start dispatches
ShutterCmd ==
    [origin |-> clock, lead |-> ShutterLead, sender |-> DeviceId,
     latency |-> 0, exact |-> FALSE, err |-> 0, wait |-> 0,
     stopped |-> FALSE]

\* handleShutterAction in a video mode: stopRecording() or startRecording()
ShutterAction ==
    /\ cam.isRecording \/ cam.stream
    /\ Len(loopback) < MaxPending
    /\ IF cam.isRecording
       THEN LET c == stopRecording(cam)
                r == sendCommand(sockets, "STOP_REC", 0)
            IN  IF c # cam /\ Broadcasts
                THEN /\ loopback' = loopback \o r.deferred
                     /\ cam' = ObserveInline(c, r)
                     /\ ev' = Ev("ShutterAction", NoMsg, InlineObs(r), Sent(r),
                                 <<>>)
                ELSE /\ loopback' = loopback
                     /\ cam' = c
                     /\ ev' = Ev("ShutterAction", NoMsg, <<>>, <<>>, <<>>)
       ELSE LET c == startRecording(cam, cam.stream)
                r == sendCommand(sockets, "START_REC", ShutterLead)
            IN  IF Broadcasts
                THEN /\ loopback' = loopback \o r.deferred
                     /\ cam' = ObserveInline(c, r)
                     /\ ev' = Ev("ShutterAction", NoMsg, InlineObs(r), Sent(r),
                                 Started("shutter", ShutterCmd))
                ELSE /\ loopback' = loopback
                     /\ cam' = c
                     /\ ev' = Ev("ShutterAction", NoMsg, <<>>, <<>>,
                                 Started("shutter", ShutterCmd))
    /\ UNCHANGED <<clock, ticks, role, sockets, syncOffset, timerVars,
                   devices, observerVars, inits, legionRole,
                   isLegionMode, received, seen>>

\* Dashboard.handleGlobalStart / handleGlobalStop
DashboardCommand(op, type, delay) ==
    /\ legionRole = "LEGATUS"
    /\ Len(loopback) < MaxPending
    /\ LET r == sendCommand(sockets, type, delay)
       IN  /\ loopback' = loopback \o r.deferred
           /\ cam' = ObserveInline(cam, r)
           /\ ev' = Ev(op, NoMsg, InlineObs(r), Sent(r), <<>>)
    /\ UNCHANGED <<clock, ticks, role, sockets, syncOffset, timerVars,
                   devices, observerVars, inits, legionRole,
                   isLegionMode, received, seen>>

handleGlobalStart ==
    DashboardCommand("handleGlobalStart", "START_REC", DashboardLead)

handleGlobalStop == DashboardCommand("handleGlobalStop", "STOP_REC", 0)

\* the pending starts whose time has come
DueTimers == {k \in DOMAIN cam.timers : cam.timers[k].due <= clock}

\* the setTimeout callback of the listener:
\* if (!isRecordingRef.current) startRecording(false)
StartTimerFire ==
    /\ DueTimers # {}
    /\ LET k == CHOOSE j \in DueTimers : \A i \in DueTimers : j <= i
           t == cam.timers[k]
           c == [cam EXCEPT !.timers = RemoveAt(@, k)]
       IN  /\ cam' = IF cam.isRecordingRef THEN c
                     ELSE startRecording(c, cam.capStream)
           /\ ev' = [Ev("StartTimerFire", NoMsg, <<>>, <<>>,
                        IF cam.isRecordingRef \/ ~cam.capStream THEN <<>>
                        ELSE Started("timer", t))
                       EXCEPT !.pre.recording = cam.isRecording]
    /\ UNCHANGED <<clock, ticks, role, sockets, syncOffset, timerVars,
                   devices, observerVars, loopback, inits, legionRole,
                   isLegionMode, received, seen>>

\* the instants at which a timer is due
Deadlines ==
    {intervals[k] : k \in DOMAIN intervals}
        \cup {cam.timers[k].due : k \in DOMAIN cam.timers}

\* time passes, up to the next deadline; zero-delay tasks and the pending
\* render effect run first
Tick(d) ==
    /\ ticks < MaxTicks
    /\ d > 0
    /\ loopback = <<>>
    /\ cam.isRecordingRef = cam.isRecording
    /\ \A t \in Deadlines : clock + d <= t
    /\ clock' = clock + d
    /\ ticks' = ticks + 1
    /\ ev' = Ev("Tick", NoMsg, <<>>, <<>>, <<>>)
    /\ UNCHANGED <<role, sockets, syncOffset, timerVars, devices,
                   observerVars, loopback, inits, legionRole,
                   isLegionMode, cam, received, seen>>

\* the latencies that matter for a kind: the timestamp of a record is read
\* only for SYNC, HEARTBEAT and START_REC
LatenciesOf(type) ==
    IF type \in {"SYNC", "HEARTBEAT", "START_REC"} THEN Latencies ELSE {0}

\* the records the network may deliver: any kind, from the node itself or
\* from another sender
Inbound ==
    {InMsg(type, s, lat, 0) :
        type \in MsgTypes \ {"START_REC"}, s \in Senders, lat \in Latencies}
    \cup {InMsg("START_REC", s, lat, ShutterLead) :
             s \in Senders, lat \in Latencies}

\* the records delivered to the service alone: START_REC takes the same
\* path through handleMessage as STOP_REC, and what the camera makes of it
\* is the subject of CameraSpec
ServiceInbound == {m \in Inbound :
                     /\ m.type # "START_REC"
                     /\ (clock - Skew) - m.timestamp \in LatenciesOf(m.type)}

\* the records a Commander's broadcast delivers to a field node's camera,
\* and commands that come back to the node with its own senderId
Commands ==
    {InMsg("SYNC", "n1", lat, 0) : lat \in Latencies}
    \cup {InMsg("STOP_REC", "n1", 0, 0)}
    \cup {InMsg("START_REC", "n1", lat, d) : lat \in Latencies, d \in Delays}
    \cup {InMsg(type, DeviceId, 0, 0) : type \in {"START_REC", "STOP_REC"}}

\* the service, the network and the clock
ServiceNext ==
    \/ StartAsLegatus
    \/ StartAsCenturion
    \/ InitializeNoTarget
    \/ \E i \in DOMAIN sockets : SocketOpen(i)
    \/ \E i \in DOMAIN sockets : SocketClose(i)
    \/ \E i \in DOMAIN sockets, m \in ServiceInbound : Receive(i, m)
    \/ HeartbeatTick
    \/ LoopbackRun
    \/ \E d \in TickSteps \cup {t - clock : t \in Deadlines} : Tick(d)

\* App.handleModeChange opens the LegionHUD only while no role is set
HudCanOpen == legionRole = "null"

\* the camera, its user, the Commander's commands and the clock
CameraNext ==
    \/ HudCanOpen /\ StartAsLegatus
    \/ HudCanOpen /\ StartAsCenturion
    \/ \E i \in DOMAIN sockets : SocketOpen(i)
    \/ \E i \in DOMAIN sockets, m \in Commands : Receive(i, m)
    \/ HeartbeatTick
    \/ LoopbackRun
    \/ StartCamera
    \/ RefEffect
    \/ ShutterAction
    \/ handleGlobalStart
    \/ handleGlobalStop
    \/ StartTimerFire
    \/ \E d \in TickSteps \cup {t - clock : t \in Deadlines} :
          ticks < MaxCameraTicks /\ Tick(d)

Init == NodeInit /\ PluginIdle

Spec == Init /\ [][ServiceNext /\ UNCHANGED pluginVars]_vars

CameraSpec == Init /\ [][CameraNext /\ UNCHANGED pluginVars]_vars

\* the listeners of the service: the camera, which subscribes while the
\* mode is LEGION_LINK, and the Dashboard of a Commander
ListenerNext ==
    \/ HudCanOpen /\ StartAsLegatus
    \/ HudCanOpen /\ StartAsCenturion
    \/ DashboardMount
    \/ LeaveLegionMode
    \/ EnterLegionMode
    \/ \E i \in DOMAIN sockets : SocketOpen(i)
    \/ \E i \in DOMAIN sockets, m \in ServiceInbound : Receive(i, m)
    \/ HeartbeatTick
    \/ LoopbackRun
    \/ \E d \in TickSteps \cup {t - clock : t \in Deadlines} : Tick(d)

ListenerSpec == Init /\ [][ListenerNext /\ UNCHANGED pluginVars]_vars

\* the camera on a connection that also delivers frames that are not a
\* LegionMessage
FrameNext ==
    \/ CameraNext
    \/ \E i \in DOMAIN sockets, f \in Frames : ReceiveMalformed(i, f)

FrameSpec == Init /\ [][FrameNext /\ UNCHANGED pluginVars]_vars

----------------------------------------------------------------------------
(* LegionLinkPlugin: the connection list, the handler thread of each
   connection and the threads of one broadcastSyncMessage call.  The monitor
   of `clients` is held from BroadcastBegin to BroadcastEnd. *)

Locked == bc.phase = "locked"

\* every sender thread of the last broadcast has finished
SendersDone ==
    \A s \in DOMAIN bc.threads : bc.threads[s] \in {"wrote", "failed"}

\* initializeServer: the call itself.  It answers before the server thread
\* has tried to bind.  It starts a new server thread whenever isLegatus is
\* false; the thread of the session before may still be blocked in accept()
\* or in its catch block, and is followed as `old`.
initializeServer ==
    /\ srv.starts < MaxStarts
    /\ IF srv.isLegatus
       THEN srv' = [srv EXCEPT !.status = "ALREADY_RUNNING",
                               !.starts = @ + 1]
       ELSE /\ \/ srv.thread \in {"none", "done"}
               \/ srv.thread \in {"accept", "catch"}
                     /\ srv.old \in {"none", "done"}
            /\ srv' = [srv EXCEPT !.isLegatus = TRUE, !.thread = "bind",
                                  !.old = IF srv.thread \in {"accept", "catch"}
                                          THEN srv.thread ELSE @,
                                  !.status = "SERVER_LISTENING",
                                  !.starts = @ + 1, !.stopped = FALSE,
                                  !.late = {}]
    /\ UNCHANGED <<clients, conn, bc>>

\* the server thread: ServerSocket(8080) and startHeartbeatLoop(), or the
\* exception of a bind that fails
ServerBind(ok) ==
    /\ srv.thread = "bind"
    /\ srv' = IF ok
              THEN [srv EXCEPT !.serverSocket = "open",
                               !.heartbeatTimer = "running",
                               !.thread = "accept"]
              ELSE [srv EXCEPT !.thread = "catch"]
    /\ UNCHANGED <<clients, conn, bc>>

\* the server thread: while (isLegatus) with serverSocket.accept() returning
\* the connection s
AcceptReturn(s) ==
    /\ srv.thread = "accept"
    /\ srv.isLegatus
    /\ srv.serverSocket = "open"
    /\ conn[s].state = "none"
    /\ conn' = [conn EXCEPT ![s].state = "open"]
    /\ srv' = [srv EXCEPT !.thread = "add", !.has = s]
    /\ UNCHANGED <<clients, bc>>

\* the server thread: synchronized(clients) { clients.add(it) } and
\* handleClient(it), which starts the handler thread
AcceptAdd ==
    /\ srv.thread = "add"
    /\ ~Locked
    /\ clients' = clients \cup {srv.has}
    /\ conn' = [conn EXCEPT ![srv.has].handler = "start"]
    /\ srv' = [srv EXCEPT !.thread = "accept", !.has = "none"]
    /\ UNCHANGED bc

\* the server thread: the loop ends because isLegatus is false, or accept()
\* throws because the server socket has been closed
AcceptEnd ==
    /\ srv.thread = "accept"
    /\ \/ /\ ~srv.isLegatus
          /\ srv' = [srv EXCEPT !.thread = "done"]
       \/ /\ srv.serverSocket = "closed"
          /\ srv' = [srv EXCEPT !.thread = "catch"]
    /\ UNCHANGED <<clients, conn, bc>>

\* the server thread: catch { isLegatus = false; stopHeartbeatLoop();
\* call.reject(..) }.  The call has been resolved already.
ServerCatch ==
    /\ srv.thread = "catch"
    /\ srv' = [srv EXCEPT !.isLegatus = FALSE, !.heartbeatTimer = "null",
                          !.thread = "done"]
    /\ UNCHANGED <<clients, conn, bc>>

\* the server thread of the session before: its accept() throws, because
\* stopServer has closed the socket it is blocked on
OldAcceptThrows ==
    /\ srv.old = "accept"
    /\ srv' = [srv EXCEPT !.old = "catch"]
    /\ UNCHANGED <<clients, conn, bc>>

\* the server thread of the session before: its catch block, which writes
\* the fields the new session uses
OldServerCatch ==
    /\ srv.old = "catch"
    /\ srv' = [srv EXCEPT !.isLegatus = FALSE, !.heartbeatTimer = "null",
                          !.old = "done"]
    /\ UNCHANGED <<clients, conn, bc>>

\* handleClient: the initial SYNC ping of the handler thread
HandlerSync(s) ==
    /\ conn[s].handler = "start"
    /\ conn' = [conn EXCEPT ![s].handler = "reading",
                            ![s].got = IF conn[s].state = "open"
                                       THEN Append(@, "SYNC") ELSE @]
    /\ UNCHANGED <<clients, bc, srv>>

\* the connection breaks: from now on a send on it fails
BreakConn(s) ==
    /\ conn[s].state = "open"
    /\ conn' = [conn EXCEPT ![s].state = "broken"]
    /\ UNCHANGED <<clients, bc, srv>>

\* the FieldNode at the other end of s sends a line: its HANDSHAKE, and
\* after the last line has been taken its next HEARTBEAT
ClientSend(s) ==
    /\ conn[s].state = "open"
    /\ conn[s].line \in {"none", "forwarded"}
    /\ conn' = [conn EXCEPT ![s].line = "sent"]
    /\ UNCHANGED <<clients, bc, srv>>

\* handleClient: scanner.hasNextLine() && isLegatus, then nextLine()
HandlerRead(s) ==
    /\ conn[s].handler = "reading"
    /\ conn[s].state = "open"
    /\ conn[s].line = "sent"
    /\ srv.isLegatus
    /\ conn' = [conn EXCEPT ![s].handler = "line", ![s].line = "read"]
    /\ UNCHANGED <<clients, bc, srv>>

\* handleClient: notifyListeners("onRemoteMessage", ret)
HandlerForward(s) ==
    /\ conn[s].handler = "line"
    /\ conn' = [conn EXCEPT ![s].handler = "reading", ![s].line = "forwarded"]
    /\ srv' = IF srv.stopped
              THEN [srv EXCEPT !.late = @ \cup {"onRemoteMessage"}]
              ELSE srv
    /\ UNCHANGED <<clients, bc>>

\* handleClient: the read loop ends, because the connection is broken or
\* closed or because a line is there and isLegatus is false; finally block
HandlerExit(s) ==
    /\ conn[s].handler = "reading"
    /\ \/ conn[s].state = "broken"
       \/ conn[s].line = "sent" /\ ~srv.isLegatus
    /\ ~Locked
    /\ clients' = clients \ {s}
    /\ conn' = [conn EXCEPT ![s].handler = "done", ![s].state = "broken"]
    /\ UNCHANGED <<bc, srv>>

\* broadcastSyncMessage enters synchronized(clients) and starts one sender
\* thread per connection
BroadcastBegin(type) ==
    /\ bc.phase \in {"idle", "returned"}
    /\ SendersDone
    /\ bc.n < MaxBroadcasts
    /\ clients # {}
    /\ bc' = [phase |-> "locked", n |-> bc.n + 1, type |-> type,
              targets |-> clients, threads |-> [s \in clients |-> "ready"],
              disconnected |-> {}]
    /\ UNCHANGED <<clients, conn>>

\* broadcastCommand: broadcastSyncMessage(type, payload)
broadcastCommand(type) ==
    /\ BroadcastBegin(type)
    /\ UNCHANGED srv

\* the task of the heartbeat timer: if (isLegatus)
TimerTask ==
    /\ srv.heartbeatTimer = "running"
    /\ srv.task = "idle"
    /\ srv.isLegatus
    /\ bc.n < MaxBroadcasts
    /\ srv' = [srv EXCEPT !.task = "armed"]
    /\ UNCHANGED <<clients, conn, bc>>

\* the task of the heartbeat timer: broadcastSyncMessage("HEARTBEAT")
TaskBroadcast ==
    /\ srv.task = "armed"
    /\ IF clients = {}
       THEN UNCHANGED <<clients, conn, bc>>
       ELSE BroadcastBegin("HEARTBEAT")
    /\ srv' = [srv EXCEPT !.task = "idle",
                          !.late = IF srv.stopped THEN @ \cup {"HEARTBEAT"}
                                   ELSE @]

\* a sender thread: writer.println(msgString), or the exception
SenderWrite(s) ==
    /\ s \in DOMAIN bc.threads
    /\ bc.threads[s] = "ready"
    /\ IF conn[s].state = "broken"
       THEN /\ bc' = [bc EXCEPT !.threads[s] = "adding"]
            /\ conn' = conn
       ELSE /\ bc' = [bc EXCEPT !.threads[s] = "wrote"]
            /\ conn' = [conn EXCEPT ![s].got = Append(@, bc.type)]
    /\ UNCHANGED <<clients, srv>>

\* a sender thread: disconnected.add(socket) in the catch block.  The list
\* is not synchronized: an add that races with another add may be lost.
SenderAdd(s, lost) ==
    /\ s \in DOMAIN bc.threads
    /\ bc.threads[s] = "adding"
    /\ lost => \E o \in DOMAIN bc.threads : o # s /\ bc.threads[o] = "adding"
    /\ bc' = [bc EXCEPT !.threads[s] = "failed",
                        !.disconnected = IF lost THEN @ ELSE @ \cup {s}]
    /\ UNCHANGED <<clients, conn, srv>>

\* the connections the broadcasting thread removes before it leaves
\* synchronized(clients): clients.removeAll(disconnected)
Pruned(b) == b.disconnected

\* broadcastSyncMessage: removeAll, then the monitor is released
BroadcastEnd ==
    /\ Locked
    /\ clients' = clients \ Pruned(bc)
    /\ bc' = [bc EXCEPT !.phase = "returned"]
    /\ UNCHANGED <<conn, srv>>

\* stopServer: isLegatus = false, stopHeartbeatLoop(), serverSocket.close(),
\* then under the monitor every connection is closed and the list cleared
stopServer ==
    /\ ~Locked
    /\ ~srv.stopped
    /\ srv' = [srv EXCEPT !.isLegatus = FALSE, !.heartbeatTimer = "null",
                          !.serverSocket = IF @ = "open" THEN "closed" ELSE @,
                          !.stopped = TRUE, !.late = {}]
    /\ conn' = [s \in Sockets |->
                  IF s \in clients THEN [conn[s] EXCEPT !.state = "broken"]
                  ELSE conn[s]]
    /\ clients' = {}
    /\ UNCHANGED bc

\* a running server and one broadcastCommand
PluginNext ==
    \/ initializeServer
    \/ ServerBind(TRUE)
    \/ \E s \in Sockets : AcceptReturn(s)
    \/ AcceptAdd
    \/ \E s \in Sockets : HandlerSync(s)
    \/ \E s \in Sockets : BreakConn(s)
    \/ \E s \in Sockets : HandlerExit(s)
    \/ broadcastCommand("START_REC")
    \/ \E s \in Sockets : SenderWrite(s)
    \/ \E s \in Sockets, lost \in BOOLEAN : SenderAdd(s, lost)
    \/ BroadcastEnd

PluginSpec == Init /\ [][PluginNext /\ UNCHANGED nodeVars]_vars

\* the connections of the server's life cycle
ServerConns == {"s1", "s2"}

\* the server from initializeServer to stopServer
ServerNext ==
    \/ initializeServer
    \/ \E ok \in BOOLEAN : ServerBind(ok)
    \/ \E s \in ServerConns : AcceptReturn(s)
    \/ AcceptAdd
    \/ AcceptEnd
    \/ ServerCatch
    \/ OldAcceptThrows
    \/ OldServerCatch
    \/ \E s \in ServerConns : HandlerSync(s)
    \/ \E s \in ServerConns : ClientSend(s)
    \/ \E s \in ServerConns : HandlerRead(s)
    \/ \E s \in ServerConns : HandlerForward(s)
    \/ \E s \in ServerConns : BreakConn(s)
    \/ \E s \in ServerConns : HandlerExit(s)
    \/ TimerTask
    \/ TaskBroadcast
    \/ \E s \in ServerConns : SenderWrite(s)
    \/ \E s \in ServerConns, lost \in BOOLEAN : SenderAdd(s, lost)
    \/ BroadcastEnd
    \/ stopServer

ServerSpec == Init /\ [][ServerNext /\ UNCHANGED nodeVars]_vars

\* the connection of the FieldNode that joins the Commander
LinkConn == "s1"

\* the Commander end to end: its LegionService and camera on one side, its
\* transport with one FieldNode connecting and sending its HANDSHAKE on the
\* other.  Nothing in the sources subscribes to onRemoteMessage, so no step
\* takes a forwarded line to handleMessage.
LinkService ==
    \/ HudCanOpen /\ StartAsLegatus
    \/ HeartbeatTick
    \/ LoopbackRun
    \/ \E d \in TickSteps \cup {t - clock : t \in Deadlines} : Tick(d)

LinkTransport ==
    \/ initializeServer
    \/ ServerBind(TRUE)
    \/ AcceptReturn(LinkConn)
    \/ AcceptAdd
    \/ HandlerSync(LinkConn)
    \/ ClientSend(LinkConn)
    \/ HandlerRead(LinkConn)
    \/ HandlerForward(LinkConn)

LinkNext ==
    \/ LinkService /\ UNCHANGED pluginVars
    \/ LinkTransport /\ UNCHANGED nodeVars

\* every thread and every timer keeps running: the node's event loop and
\* the plugin's threads are scheduled independently of each other
LinkSpec ==
    /\ Init
    /\ [][LinkNext]_vars
    /\ WF_vars(LinkService /\ UNCHANGED pluginVars)
    /\ WF_vars(LinkTransport /\ UNCHANGED nodeVars)

----------------------------------------------------------------------------
(* Broadcast *)

\* the sender threads of the last broadcast whose send failed
FailedSends == {s \in DOMAIN bc.threads : bc.threads[s] = "failed"}

\* C2: once a broadcast to three connections on which exactly one send
\* failed is over, the failed connection has left the connection set, and
\* every other connection has been written the message and is still in the
\* set unless its own handler has removed it.
C2_BroadcastPrunesFailed ==
    (bc.phase = "returned" /\ SendersDone /\ Cardinality(bc.targets) = 3
        /\ Cardinality(FailedSends) = 1)
    => \A s \in bc.targets :
          IF s \in FailedSends
          THEN s \notin clients
          ELSE /\ conn[s].got # <<>>
               /\ conn[s].got[Len(conn[s].got)] = bc.type
               /\ s \in clients \/ conn[s].handler = "done"

----------------------------------------------------------------------------
(* Teardown *)

\* C14: from the return of stopServer until the next initializeServer the
\* connection list is empty, no heartbeat timer exists, and neither a
\* HEARTBEAT broadcast nor an onRemoteMessage notification has been made
\* since.
C14_TeardownIsFinal ==
    srv.stopped
    => /\ clients = {}
       /\ srv.heartbeatTimer = "null"
       /\ srv.late = {}

----------------------------------------------------------------------------
(* Membership *)

\* C19: once the Commander's transport has handed the HANDSHAKE line of a
\* connected FieldNode to its listeners, the Commander's device map
\* eventually holds a record.
C19_HandshakeReachesTracker ==
    (role = "LEGATUS" /\ conn[LinkConn].line = "forwarded")
        ~> (getConnectedDevices # {})

\* the senders a liveness message came from within the liveness timeout
RecentSenders == {id \in DOMAIN seen : clock - seen[id] <= LivenessTimeout}

\* C1: in every reachable state the snapshot is exactly the set of senders
\* from which a Heartbeat, Telemetry or Handshake was received within the
\* last 15000 ms.
C1_SnapshotIsRecentSenders == getConnectedDevices = RecentSenders

\* C9: a record present before a sweep whose age exceeds 15000 ms at the
\* sweep is absent after it, and a record whose age is at most 15000 ms is
\* still present, unchanged.
C9_SweepEvictsByAge ==
    ev.op = "HeartbeatTick" =>
        \A id \in DOMAIN ev.pre.devices :
            IF clock - ev.pre.devices[id] > LivenessTimeout
            THEN id \notin DOMAIN devices
            ELSE id \in DOMAIN devices /\ devices[id] = ev.pre.devices[id]

\* a sweep has just evicted a record older than the timeout
C9_Witness ==
    /\ ev.op = "HeartbeatTick"
    /\ \E id \in DOMAIN ev.pre.devices :
          /\ clock - ev.pre.devices[id] > LivenessTimeout
          /\ id \notin DOMAIN devices

\* C10: a Heartbeat from another sender creates or refreshes that sender's
\* record: right after its receipt the record exists with lastPing = now.
C10_HeartbeatTracksSender ==
    (ev.op = "Receive" /\ ev.msg.type = "HEARTBEAT"
        /\ ev.msg.senderId # DeviceId)
    => (ev.msg.senderId \in DOMAIN devices
        /\ devices[ev.msg.senderId] = clock)

----------------------------------------------------------------------------
(* Clock *)

\* C6: while the node's role is Commander its synchronized time is its
\* local clock.
C6_CommanderOffsetZero ==
    role = "LEGATUS" => getSynchronizedTime(syncOffset) = clock

IsSyncSample(m) == m.type \in {"SYNC", "HEARTBEAT"} /\ m.senderId # DeviceId

\* C7: a processed Sync or Heartbeat with origin T received at local time R
\* leaves synchronizedNow() = localClock() - (R - T), whatever the offset was
\* before; no other step changes the offset.
C7_OffsetIsLastSample ==
    [][IF ev'.op = "Receive" /\ IsSyncSample(ev'.msg)
       THEN getSynchronizedTime(syncOffset)' =
                clock' - (clock' - ev'.msg.timestamp)
       ELSE syncOffset' = syncOffset]_vars

\* a sample has just replaced a different, non-zero offset
C7_Witness ==
    /\ ev.op = "Receive"
    /\ IsSyncSample(ev.msg)
    /\ ev.pre.offset # 0
    /\ ev.pre.offset # syncOffset
    /\ syncOffset = clock - ev.msg.timestamp

----------------------------------------------------------------------------
(* Dispatch *)

\* C8: a step that calls sendCommand makes no observer call, and no
\* observer call is ever made from inside sendCommand; the loopback copy of
\* a broadcast waits in the task queue.
C8_LoopbackIsDeferred ==
    /\ \A k \in DOMAIN ev.obs : ~ev.obs[k].inDispatch
    /\ ev.sent # <<>> =>
          /\ ev.obs = <<>>
          /\ ev.sent[1].via = "broadcast" =>
                (loopback # <<>> /\ loopback[Len(loopback)] = ev.sent[1].msg)

\* the observer has just been given, in a later turn, the Commander's own
\* StartRecording
C8_Witness ==
    /\ ev.op = "LoopbackRun"
    /\ role = "LEGATUS"
    /\ ev.obs # <<>>
    /\ ev.obs[1].msg.type = "START_REC"
    /\ ev.obs[1].msg.senderId = DeviceId

----------------------------------------------------------------------------
(* Synchronized start *)

\* C3: a pending start that has seen a StopRecording begins no recording.
C3_StopCancelsPendingStart ==
    \A k \in DOMAIN ev.started :
        ev.started[k].via = "timer" => ~ev.started[k].stopped

\* C4: a start scheduled with an exact offset from a StartRecording{delay: D}
\* of origin T0, delivered with latency 0 <= L <= D, begins at Commander time
\* T0 + D.
C4_StartAtOriginPlusLead ==
    \A k \in DOMAIN ev.started :
        (ev.started[k].via = "timer" /\ ev.started[k].exact
            /\ ev.started[k].latency >= 0
            /\ ev.started[k].latency <= ev.started[k].lead)
        => clock - Skew = ev.started[k].origin + ev.started[k].lead

\* a recording has just begun from a command that took 250 ms to arrive
C4_Witness ==
    /\ ev.op = "StartTimerFire"
    /\ ev.started # <<>>
    /\ ev.started[1].exact
    /\ ev.started[1].latency > 0
    /\ ev.started[1].latency < ev.started[1].lead
    /\ clock - Skew = ev.started[1].origin + ev.started[1].lead

\* C5: when the observer is given the Commander's own StartRecording{delay: D}
\* of origin T0, a start is pending for T0 + D.
C5_LoopbackSchedulesStart ==
    \A k \in DOMAIN ev.obs :
        (ev.obs[k].msg.type = "START_REC" /\ ev.obs[k].msg.senderId = DeviceId)
        => \E j \in DOMAIN cam.timers :
              /\ cam.timers[j].origin = ev.obs[k].msg.timestamp
              /\ cam.timers[j].due =
                    ev.obs[k].msg.timestamp + ev.obs[k].msg.delay

\* C12: the record a destination is given by a dispatch carries the
\* dispatching node's senderId and the local clock of the dispatch call as its
\* timestamp, on the socket, on the broadcast and on the loopback.
C12_DispatchStampsIdentity ==
    /\ \A k \in DOMAIN ev.sent :
          ev.sent[k].via # "none"
          => /\ ev.sent[k].wire.senderId = DeviceId
             /\ ev.sent[k].wire.timestamp = clock
    /\ \A k \in DOMAIN loopback :
          /\ loopback[k].senderId = DeviceId
          /\ loopback[k].timestamp = clock

----------------------------------------------------------------------------
(* Initialization *)

\* C13: when the connection attempt of the only initialize call so far has
\* failed, the caller has not been told of a success, the role is unset and
\* no heartbeat timer runs.
C13_FailedInitRollsBack ==
    (ev.op = "ConnectFailed" /\ inits = 1)
    => /\ legionRole = "null"
       /\ role = "null"
       /\ heartbeatInterval = 0

\* C20: a node whose role is Commander dispatches by broadcast, never over a
\* socket, and a record that arrives while its role is Commander changes
\* neither its offset nor its device map.
C20_CommanderNeverUsesSocket ==
    /\ \A k \in DOMAIN ev.sent :
          role = "LEGATUS" => ev.sent[k].via = "broadcast"
    /\ (ev.op = "Receive" /\ role = "LEGATUS")
          => /\ syncOffset = ev.pre.offset
             /\ ~ev.notify

\* C18: a start whose wait was positive begins at Commander time
\* T0 + D + e, where e is the error of the node's offset when the wait was
\* computed, whatever the latency of the delivery; so two nodes given the
\* same StartRecording start e_A - e_B apart.  With origin 0, delay 500 and
\* receipt at 50, a synchronized clock reading 50 waits 450 and one reading
\* 150 waits 350, starting 100 ms earlier.
C18_StartSkewIsOffsetError ==
    /\ \A k \in DOMAIN ev.started :
          (ev.started[k].via = "timer" /\ ev.started[k].wait > 0)
          => clock - Skew = ev.started[k].origin + ev.started[k].lead
                               + ev.started[k].err
    /\ WaitFor(0, 500, 50) = 450
    /\ WaitFor(0, 500, 150) = 350
    /\ (50 + WaitFor(0, 500, 50)) - (50 + WaitFor(0, 500, 150)) = 100

\* a recording has just begun from a command that was delayed on the way to
\* a node whose offset is off
C18_Witness ==
    /\ ev.op = "StartTimerFire"
    /\ ev.started # <<>>
    /\ ev.started[1].wait > 0
    /\ ev.started[1].latency > 0
    /\ ev.started[1].err # 0
    /\ clock - Skew # ev.started[1].origin + ev.started[1].lead

----------------------------------------------------------------------------
(* Stop and repeated start *)

\* C15: once the observer of a node has been handed a StopRecording, from a
\* Commander or from the node's own loopback, the node is not recording.
C15_StopRecordingStops ==
    \A k \in DOMAIN ev.obs :
        ev.obs[k].msg.type = "STOP_REC" => ~cam.isRecording

\* C16: a start timer begins a recording only when none is in progress.
C16_StartIsIdempotent ==
    (ev.op = "StartTimerFire" /\ ev.started # <<>>) => ~ev.pre.recording

\* C17: a sendCommand made by a FieldNode whose socket is not open sends
\* nothing, queues nothing, calls no observer and changes neither the camera,
\* the offset nor the role.
C17_NoConnectionNoDispatch ==
    [][(ev'.sent # <<>> /\ role = "CENTURION" /\ ~SocketIsOpen(sockets'))
       => /\ ev'.sent[1].via = "none"
          /\ ev'.sent[1].wire = NoMsg
          /\ loopback' = loopback
          /\ ev'.obs = <<>>
          /\ cam' = cam
          /\ syncOffset' = syncOffset
          /\ role' = role]_vars

\* the heartbeat of a FieldNode whose connection has been closed has just
\* dispatched into nothing
C17_Witness ==
    /\ ev.op = "HeartbeatTick"
    /\ role = "CENTURION"
    /\ sockets # <<>>
    /\ sockets[Len(sockets)] = "CLOSED"
    /\ ev.sent # <<>>
    /\ ev.sent[1].via = "none"
    /\ loopback = <<>>

----------------------------------------------------------------------------
(* Loopback suppression *)

----------------------------------------------------------------------------
(* Connection set-up of a FieldNode *)

\* the socket a FieldNode is still waiting for
Connecting(socks) == Len(socks) > 0 /\ socks[Len(socks)] = "CONNECTING"

\* C21: while the connection of a FieldNode is not yet open no heartbeat
\* timer runs; the step that opens the connection sends the HANDSHAKE over
\* it; and anything else goes over a connection only when it was open before
\* the step.
C21_HandshakeBeforeHeartbeat ==
    [][/\ (role' = "CENTURION" /\ Connecting(sockets'))
            => heartbeatInterval' = 0
       /\ (SocketIsOpen(sockets') /\ ~SocketIsOpen(sockets))
            => /\ ev'.sent # <<>>
               /\ ev'.sent[1].via = "socket"
               /\ ev'.sent[1].msg.type = "HANDSHAKE"
       /\ \A k \in DOMAIN ev'.sent :
             (ev'.sent[k].via = "socket" /\ ev'.sent[k].msg.type # "HANDSHAKE")
             => SocketIsOpen(sockets)]_vars

\* C22: initialize('CENTURION') without a target address opens no
\* connection, starts no heartbeat timer and does not tell its caller that it
\* succeeded.
C22_NoTargetNotActive ==
    [][ev'.op = "InitializeNoTarget"
       => /\ sockets' = sockets
          /\ heartbeatInterval' = 0
          /\ InitializeResult("CENTURION", FALSE) # "fulfilled"]_vars

----------------------------------------------------------------------------
(* Forwarding to the observer *)

\* C23: a record received from another sender while an observer is
\* registered is handed to that observer exactly once and unchanged, whatever
\* its kind, and the observer runs with the offset and the device map already
\* updated by that record.
C23_ForwardedOnceAfterUpdates ==
    (ev.op = "Receive" /\ ev.msg.senderId # DeviceId
        /\ onMessageCallback # "null")
    => /\ Len(ev.obs) = 1
       /\ ev.obs[1].msg = ev.msg
       /\ ev.obs[1].offset = syncOffset
       /\ ev.obs[1].known = getConnectedDevices
       /\ IsSyncSample(ev.msg) => syncOffset = clock - ev.msg.timestamp
       /\ ev.msg.type \in {"TELEMETRY", "HANDSHAKE"}
             => ev.msg.senderId \in getConnectedDevices

\* the observer has just been handed a record of a protocol-internal kind
\* that changed the offset
C23_Witness ==
    /\ ev.op = "Receive"
    /\ ev.msg.type \in {"SYNC", "HEARTBEAT"}
    /\ ev.msg.senderId # DeviceId
    /\ ev.obs # <<>>
    /\ ev.obs[1].msg = ev.msg
    /\ ev.pre.offset # syncOffset

----------------------------------------------------------------------------
(* Malformed frames *)

\* C24: a frame that is not a LegionMessage changes neither the offset, the
\* device map nor the camera, calls neither the observer nor
\* notifyTelemetry, and leaves the connection as it was, open for the next
\* record.
C24_MalformedIsDropped ==
    [][ev'.op = "ReceiveMalformed"
       => /\ syncOffset' = syncOffset
          /\ devices' = devices
          /\ cam' = cam
          /\ ev'.obs = <<>>
          /\ ~ev'.notify
          /\ sockets' = sockets]_vars

----------------------------------------------------------------------------
(* Sweep notification *)

\* C25: a sweep calls notifyTelemetry exactly when it removed a record; when
\* no record is older than 15000 ms it notifies nobody and leaves the device
\* map as it was.
C25_SweepNotifiesIffRemoved ==
    ev.op = "HeartbeatTick" =>
        /\ ev.notify <=> (DOMAIN devices # DOMAIN ev.pre.devices)
        /\ (\A id \in DOMAIN ev.pre.devices :
                clock - ev.pre.devices[id] <= LivenessTimeout)
           => (~ev.notify /\ devices = ev.pre.devices)

\* a sweep has just found a record exactly 15000 ms old, kept it and
\* notified nobody
C25_Witness ==
    /\ ev.op = "HeartbeatTick"
    /\ \E id \in DOMAIN ev.pre.devices :
          clock - ev.pre.devices[id] = LivenessTimeout
    /\ devices = ev.pre.devices
    /\ ~ev.notify

----------------------------------------------------------------------------
(* Locking *)

\* the sender threads that are inside disconnected.add(socket)
Adding == {s \in DOMAIN bc.threads : bc.threads[s] = "adding"}

\* C26: the connection list changes under the monitor only by the thread
\* that holds it; the list of failed connections of a broadcast is changed
\* only while the monitor is held; and no two threads are changing it at the
\* same time.
C26_SharedStateUnderLock ==
    [][/\ (Locked /\ clients' # clients) => bc'.phase = "returned"
       /\ (bc'.n = bc.n /\ bc'.disconnected # bc.disconnected) => Locked
       /\ Cardinality(Adding') <= 1]_vars

----------------------------------------------------------------------------
(* Restart *)

\* a second session has been started while the server thread of the first
\* was still on its way out, and it has bound its socket
Restarted ==
    /\ srv.old # "none"
    /\ ~srv.stopped
    /\ srv.serverSocket = "open"

\* C27: a session started after stopServer, once the old server thread has
\* finished, has isLegatus set, its server thread in the accept loop and its
\* heartbeat timer running; and the catch block of the old thread changes
\* neither isLegatus nor the heartbeat timer of the new session.
C27_RestartAfterTeardown ==
    [][/\ (Restarted' /\ srv'.old = "done")
            => /\ srv'.isLegatus
               /\ srv'.thread \in {"accept", "add"}
               /\ srv'.heartbeatTimer = "running"
       /\ (srv.old = "catch" /\ srv'.old = "done" /\ ~srv.stopped)
            => /\ srv'.isLegatus = srv.isLegatus
               /\ srv'.heartbeatTimer = srv.heartbeatTimer]_vars

----------------------------------------------------------------------------
(* First message on a connection *)

\* C28: whatever a connection has been written by the Commander, the first
\* line is the SYNC ping of its handler thread.
C28_FirstWrittenIsSync ==
    \A s \in Sockets : conn[s].got # <<>> => conn[s].got[1] = "SYNC"

----------------------------------------------------------------------------
(* Heartbeat timer *)

\* C29: at most one interval timer is live, it is the one the field
\* heartbeatInterval refers to, and none is live while the field is null.
C29_AtMostOneHeartbeatTimer ==
    /\ Len(intervals) <= 1
    /\ heartbeatInterval = 0 => intervals = <<>>
    /\ heartbeatInterval # 0 => intervals = <<heartbeatInterval>>

\* a socket has just opened on a node whose heartbeat timer was running and
\* already due: startHeartbeat made no second timer
C29_Witness ==
    /\ ev.op = "SocketOpen"
    /\ inits = 2
    /\ Len(intervals) = 1
    /\ heartbeatInterval # clock + HeartbeatPeriod

----------------------------------------------------------------------------
(* Listeners *)

\* C30: every listener that has called onTelemetryUpdate and has not called
\* the function it was given back is the one notifyTelemetry calls: neither
\* a later registration nor another listener's unsubscribe takes it out.
C30_UnsubscribeRemovesOnlyOwn ==
    \A l \in telemetry.subscribed : Delivers(telemetry, l)

====
